---- MODULE Spec2Model ----
(***************************************************************************)
(* Model of objc-stub-fixer.py: the Hopper script that finds Objective-C   *)
(* stubs (adrp, ldr, adrp, ldr, br) in __TEXT and renames them after the   *)
(* selector their first two instructions point at.                         *)
(*                                                                         *)
(* Text is a sequence of code points, bytes are numbers 0..255, and the    *)
(* Python primitives the script relies on (str.startswith, str.split,      *)
(* str.strip, slicing, int(s, 16), bytearray.decode) are operators that    *)
(* compute what Python computes.                                           *)
(***************************************************************************)
EXTENDS Integers, Sequences, FiniteSets, TLC

-----------------------------------------------------------------------------
(* Text literals *)

Ascii ==
  <<" ", "!", "QUOTE", "#", "$", "%", "&", "'", "(", ")", "*", "+", ",", "-", ".", "/",
    "0", "1", "2", "3", "4", "5", "6", "7", "8", "9", ":", ";", "<", "=", ">", "?",
    "@", "A", "B", "C", "D", "E", "F", "G", "H", "I", "J", "K", "L", "M", "N", "O",
    "P", "Q", "R", "S", "T", "U", "V", "W", "X", "Y", "Z", "[", "BACKSLASH", "]", "^", "_",
    "GRAVE", "a", "b", "c", "d", "e", "f", "g", "h", "i", "j", "k", "l", "m", "n", "o",
    "p", "q", "r", "s", "t", "u", "v", "w", "x", "y", "z", "{", "|", "}", "~">>

\* ord(c) of a printable ASCII character
Ord(c) == 31 + CHOOSE i \in 1..Len(Ascii) : Ascii[i] = c

\* the text of a tuple of characters: T(<<"b", "r">>) is "br"
T(cs) == [i \in 1..Len(cs) |-> Ord(cs[i])]

-----------------------------------------------------------------------------
(* Python primitives *)

\* s[1:]
DropFirst(s) == IF Len(s) = 0 THEN <<>> ELSE Tail(s)

\* s.startswith(prefix)
StartsWith(s, prefix) ==
  /\ Len(s) >= Len(prefix)
  /\ SubSeq(s, 1, Len(prefix)) = prefix

\* the index of the first c in s, 0 when there is none
RECURSIVE FindFrom(_, _, _)
FindFrom(s, c, i) ==
  IF i > Len(s) THEN 0
  ELSE IF s[i] = c THEN i
  ELSE FindFrom(s, c, i + 1)

\* s.split(c) for a one-character separator
RECURSIVE Split(_, _)
Split(s, c) ==
  LET i == FindFrom(s, c, 1) IN
  IF i = 0 THEN <<s>>
  ELSE <<SubSeq(s, 1, i - 1)>> \o Split(SubSeq(s, i + 1, Len(s)), c)

\* the characters str.strip() and int() drop: space, \t \n \v \f \r
IsSpace(ch) == ch = 32 \/ ch \in 9..13

RECURSIVE LStrip(_)
LStrip(s) ==
  IF Len(s) > 0 /\ IsSpace(s[1]) THEN LStrip(Tail(s)) ELSE s

RECURSIVE RStrip(_)
RStrip(s) ==
  IF Len(s) > 0 /\ IsSpace(s[Len(s)]) THEN RStrip(SubSeq(s, 1, Len(s) - 1)) ELSE s

\* s.strip()
Strip(s) == RStrip(LStrip(s))

IsHexDigit(ch) == ch \in 48..57 \/ ch \in 97..102 \/ ch \in 65..70

HexVal(ch) ==
  IF ch \in 48..57 THEN ch - 48
  ELSE IF ch \in 97..102 THEN ch - 87
  ELSE ch - 55

\* the digits of an int() literal: hex digits, single underscores between them
RECURSIVE DigitsOk(_, _)
DigitsOk(s, prevDigit) ==
  IF Len(s) = 0 THEN prevDigit
  ELSE IF IsHexDigit(s[1]) THEN DigitsOk(Tail(s), TRUE)
  ELSE IF s[1] = 95 THEN prevDigit /\ DigitsOk(Tail(s), FALSE)
  ELSE FALSE

RECURSIVE DigitsVal(_, _)
DigitsVal(s, acc) ==
  IF Len(s) = 0 THEN acc
  ELSE IF s[1] = 95 THEN DigitsVal(Tail(s), acc)
  ELSE DigitsVal(Tail(s), acc * 16 + HexVal(s[1]))

\* int(s, 16), the digits: hex digits with single underscores between them, or
\* a ValueError
IntOfDigits(w, neg) ==
  IF DigitsOk(w, FALSE)
  THEN [kind |-> "int", val |-> IF neg THEN 0 - DigitsVal(w, 0) ELSE DigitsVal(w, 0)]
  ELSE [kind |-> "ValueError", val |-> 0]

\* int(s, 16), after the sign: a 0x or 0X prefix, which an underscore may follow
IntOfUnsigned(u, neg) ==
  IF Len(u) >= 2 /\ u[1] = 48 /\ u[2] \in {120, 88}
  THEN IF Len(u) >= 3 /\ u[3] = 95
       THEN IntOfDigits(SubSeq(u, 4, Len(u)), neg)
       ELSE IntOfDigits(SubSeq(u, 3, Len(u)), neg)
  ELSE IntOfDigits(u, neg)

\* int(s, 16), after the surrounding whitespace: a sign
IntOfStripped(t) ==
  IF Len(t) > 0 /\ t[1] \in {43, 45}
  THEN IntOfUnsigned(Tail(t), t[1] = 45)
  ELSE IntOfUnsigned(t, FALSE)

\* int(s, 16)
PyInt16(s) == IntOfStripped(Strip(s))

IsCont(b) == b \in 128..191

\* bytes.decode(): strict UTF-8; <<>> of code points, or a UnicodeDecodeError
RECURSIVE Utf8(_, _)
Utf8(bs, acc) ==
  LET n == Len(bs)
      bad == [kind |-> "UnicodeDecodeError", val |-> <<>>]
  IN
  IF n = 0 THEN [kind |-> "str", val |-> acc]
  ELSE IF bs[1] < 128 THEN Utf8(Tail(bs), Append(acc, bs[1]))
  ELSE IF bs[1] \in 194..223 THEN
    IF n >= 2 /\ IsCont(bs[2])
    THEN Utf8(SubSeq(bs, 3, n), Append(acc, (bs[1] - 192) * 64 + (bs[2] - 128)))
    ELSE bad
  ELSE IF bs[1] \in 224..239 THEN
    IF /\ n >= 3
       /\ IsCont(bs[2])
       /\ IsCont(bs[3])
       /\ (bs[1] = 224 => bs[2] >= 160)
       /\ (bs[1] = 237 => bs[2] <= 159)
    THEN Utf8(SubSeq(bs, 4, n),
              Append(acc, (bs[1] - 224) * 4096 + (bs[2] - 128) * 64 + (bs[3] - 128)))
    ELSE bad
  ELSE IF bs[1] \in 240..244 THEN
    IF /\ n >= 4
       /\ IsCont(bs[2])
       /\ IsCont(bs[3])
       /\ IsCont(bs[4])
       /\ (bs[1] = 240 => bs[2] >= 144)
       /\ (bs[1] = 244 => bs[2] <= 143)
    THEN Utf8(SubSeq(bs, 5, n),
              Append(acc, (bs[1] - 240) * 262144 + (bs[2] - 128) * 4096
                          + (bs[3] - 128) * 64 + (bs[4] - 128)))
    ELSE bad
  ELSE bad

Decode(bs) == Utf8(bs, <<>>)

-----------------------------------------------------------------------------
(* The host document (Hopper's Document, Segment and Instruction objects)   *)
(*                                                                          *)
(* A document is a record                                                   *)
(*   seg    getCurrentSegment() returns a segment (FALSE: it returns None)  *)
(*   insts  the decoded instructions, by address                            *)
(*   cells  the 8-byte little-endian words readUInt64LE can read, by address*)
(*   bytes  the bytes readByte can read, by address                         *)
(*   text   getSegmentByName("__TEXT") finds the segment                    *)
(*   named  seg.getNamedAddresses()                                         *)
(*   names  the name at each named address                                  *)
(* A read of an address that is not mapped fails (it raises).               *)

\* getFormattedArgument(1) returned None
NoArg == [some |-> FALSE, text |-> <<>>]

Arg(t) == [some |-> TRUE, text |-> t]

\* getInstructionAtAddress returned None
NoInstruction == [found |-> FALSE, mnem |-> <<>>, arg1 |-> NoArg]

Inst(m, a) == [found |-> TRUE, mnem |-> m, arg1 |-> a]

\* seg.getInstructionAtAddress(address)
Fetch(doc, address) ==
  IF address \in DOMAIN doc.insts THEN doc.insts[address] ELSE NoInstruction

\* str(x) of an operand: str(None) is "None"
Str(arg) == IF arg.some THEN arg.text ELSE T(<<"N", "o", "n", "e">>)

-----------------------------------------------------------------------------
(* objc-stub-fixer.py *)

\* the instruction width in address + i * 4
Stride == 4

\* range(5): the instructions of a stub
WindowLen == 5

expected_instructions ==
  <<T(<<"a", "d", "r", "p">>), T(<<"l", "d", "r">>), T(<<"a", "d", "r", "p">>),
    T(<<"l", "d", "r">>), T(<<"b", "r">>)>>

\* the addresses is_objc_stub fetches
WindowAddress(address, i) == address + (i - 1) * Stride

\* the bug of comparing for equality: inst == expected
MnemonicEquals(inst, expected) == inst = expected

\* inst.startswith(expected), one pair of the zip
MnemonicMatches(inst, expected) == StartsWith(inst, expected)

\* is_objc_stub(doc, address): a bool, or the AttributeError of a missing segment
is_objc_stub(doc, address) ==
  IF ~doc.seg THEN [kind |-> "AttributeError", val |-> FALSE]
  ELSE
    LET instructions == [i \in 1..WindowLen |-> Fetch(doc, WindowAddress(address, i))]
        instruction_strings == [i \in 1..WindowLen |-> instructions[i].mnem]
    IN IF \E i \in 1..WindowLen : ~instructions[i].found
       THEN [kind |-> "bool", val |-> FALSE]
       ELSE [kind |-> "bool",
             val |-> \A i \in 1..WindowLen :
                       MnemonicMatches(instruction_strings[i], expected_instructions[i])]

\* the except clause of parse_offset
OffsetErrorCaught(exc) == exc \in {"IndexError", "ValueError"}

\* parts[1].strip()[1:] read as hexadecimal; parts[1] of a list of one is an
\* IndexError
OffsetOfParts(parts) ==
  IF Len(parts) < 2 THEN [kind |-> "IndexError", val |-> 0]
  ELSE PyInt16(DropFirst(Strip(parts[2])))

\* .split("[")[1].split("]")[0].split(",")
OffsetOfPieces(afterOpen) ==
  IF Len(afterOpen) < 2 THEN [kind |-> "IndexError", val |-> 0]
  ELSE OffsetOfParts(Split(Split(afterOpen[2], Ord("]"))[1], Ord(",")))

\* the body of parse_offset's try
OffsetOf(ldr_inst_offset_str) == OffsetOfPieces(Split(ldr_inst_offset_str, Ord("[")))

\* parse_offset's return and except: the offset, None with the error printed,
\* or the exception its except clause does not name
OffsetResult(r) ==
  IF r.kind = "int" THEN [kind |-> "int", val |-> r.val, printed |-> "none"]
  ELSE IF OffsetErrorCaught(r.kind)
  THEN [kind |-> "None", val |-> 0, printed |-> "Error parsing offset"]
  ELSE [kind |-> r.kind, val |-> 0, printed |-> "none"]

\* parse_offset(ldr_inst_offset_str)
parse_offset(ldr_inst_offset_str) == OffsetResult(OffsetOf(ldr_inst_offset_str))

\* the except clause of get_page_address
PageErrorCaught(exc) == exc = "ValueError"

\* the body of get_page_address's try: None[1:] is a TypeError
PageOf(adrp_inst) ==
  IF ~adrp_inst.arg1.some THEN [kind |-> "TypeError", val |-> 0]
  ELSE PyInt16(DropFirst(adrp_inst.arg1.text))

\* get_page_address's return and except: the page, None with the error printed,
\* or the exception its except clause does not name
PageResult(r) ==
  IF r.kind = "int" THEN [kind |-> "int", val |-> r.val, printed |-> "none"]
  ELSE IF PageErrorCaught(r.kind)
  THEN [kind |-> "None", val |-> 0, printed |-> "Error parsing page address"]
  ELSE [kind |-> r.kind, val |-> 0, printed |-> "none"]

\* get_page_address(adrp_inst)
get_page_address(adrp_inst) == PageResult(PageOf(adrp_inst))

\* the bug of dropping the offset: selector_addr = page
SelectorAddrPageOnly(page, offset) == page

\* selector_addr = page + offset
SelectorAddr(page, offset) == page + offset

\* the bug of leaving the null check out
PtrTruthyAlways(selector_ptr) == TRUE

\* if selector_ptr:
PtrTruthy(selector_ptr) == selector_ptr # 0

\* a parser that was not called
Unparsed == [kind |-> "unparsed", val |-> 0, printed |-> "none"]

\* get_selector(doc, address) up to its call of read_c_string:
\*   kind   "None" (it returns None), "raise" (exc propagates) or "read" (it
\*          calls read_c_string(doc, ptr))
\*   cells  the addresses it handed to readUInt64LE
\*   page, offset  what the two parsers returned
HeadOut(k, e, p, cs, pg, off) ==
  [kind |-> k, exc |-> e, ptr |-> p, cells |-> cs, page |-> pg, offset |-> off]

\* selector_ptr = doc.readUInt64LE(selector_addr); if selector_ptr: ...
HeadOfCell(doc, page, offset, selector_addr) ==
  IF selector_addr \notin DOMAIN doc.cells
  THEN HeadOut("raise", "ReadFault", 0, {selector_addr}, page, offset)
  ELSE IF PtrTruthy(doc.cells[selector_addr])
  THEN HeadOut("read", "none", doc.cells[selector_addr], {selector_addr}, page, offset)
  ELSE HeadOut("None", "none", 0, {selector_addr}, page, offset)

\* if page is None or offset is None: return None
HeadOfParsed(doc, page, offset) ==
  IF offset.kind \notin {"int", "None"}
  THEN HeadOut("raise", offset.kind, 0, {}, page, offset)
  ELSE IF page.kind = "None" \/ offset.kind = "None"
  THEN HeadOut("None", "none", 0, {}, page, offset)
  ELSE HeadOfCell(doc, page, offset, SelectorAddr(page.val, offset.val))

\* offset = parse_offset(str(ldr_inst.getFormattedArgument(1))), which runs only
\* if get_page_address did not raise
HeadOfPage(doc, page, ldr_inst) ==
  IF page.kind \notin {"int", "None"}
  THEN HeadOut("raise", page.kind, 0, {}, page, Unparsed)
  ELSE HeadOfParsed(doc, page, parse_offset(Str(ldr_inst.arg1)))

\* if not adrp_inst or not ldr_inst: return None; page = get_page_address(adrp_inst)
HeadOfInsts(doc, adrp_inst, ldr_inst) ==
  IF ~adrp_inst.found \/ ~ldr_inst.found
  THEN HeadOut("None", "none", 0, {}, Unparsed, Unparsed)
  ELSE HeadOfPage(doc, get_page_address(adrp_inst), ldr_inst)

SelectorHead(doc, address) ==
  IF ~doc.seg THEN HeadOut("raise", "AttributeError", 0, {}, Unparsed, Unparsed)
  ELSE HeadOfInsts(doc, Fetch(doc, address), Fetch(doc, address + Stride))

\* the frame of read_c_string(doc, address) on entry
ReadStart(address) ==
  [address |-> address, result |-> <<>>, reads |-> {}, start |-> address,
   out |-> [kind |-> "running", val |-> <<>>]]

\* the bug of leaving address += 1 out
NextAddressStuck(address) == address

\* address += 1
NextAddress(address) == address + 1

\* return result.decode()
ReadResult(result) == Decode(result)

\* the bug of appending the byte before testing it: the terminator is kept
ReadIterKeepsTerminator(doc, r) ==
  IF r.address \notin DOMAIN doc.bytes
  THEN [r EXCEPT !.out = [kind |-> "ReadFault", val |-> <<>>]]
  ELSE
    LET byte == doc.bytes[r.address] IN
    IF byte = 0
    THEN [r EXCEPT !.reads = @ \cup {r.address}, !.out = ReadResult(Append(r.result, byte))]
    ELSE [r EXCEPT !.reads = @ \cup {r.address},
                   !.result = Append(@, byte),
                   !.address = NextAddress(@)]

\* one pass of read_c_string's while loop
ReadIter(doc, r) ==
  IF r.address \notin DOMAIN doc.bytes
  THEN [r EXCEPT !.out = [kind |-> "ReadFault", val |-> <<>>]]
  ELSE
    LET byte == doc.bytes[r.address] IN
    IF byte = 0
    THEN [r EXCEPT !.reads = @ \cup {r.address}, !.out = ReadResult(r.result)]
    ELSE [r EXCEPT !.reads = @ \cup {r.address},
                   !.result = Append(@, byte),
                   !.address = NextAddress(@)]

\* procedure_name.startswith("sub_")
IsAutoName(procedure_name) == StartsWith(procedure_name, T(<<"s", "u", "b", "_">>))

\* the bug of testing for None alone: if selector is None
SelectorMissingNoneOnly(selector) == selector.kind = "None"

\* if not selector: None and "" are both falsy
SelectorMissing(selector) == selector.kind = "None" \/ selector.val = <<>>

\* the bug of leaving the "()" out
NewNameBare(selector) == selector

\* f"{selector}()"
NewName(selector) == selector \o <<40, 41>>

\* the bug of a narrow handler: except ValueError (UnicodeDecodeError is one)
DriverCatchesValueError(exc) == exc \in {"ValueError", "UnicodeDecodeError"}

\* except Exception
DriverCatches(exc) == TRUE

\* renamed_functions += 1
CountRenamed(renamed_functions) == renamed_functions + 1

-----------------------------------------------------------------------------
(* The documents and arguments the functions are run on *)

\* the longest run of bytes a string image holds
MaxStrLen == 3

\* the named addresses of a scanned document
NCand == 2

SeqsUpTo(S, n) == UNION {[1..k -> S] : k \in 0..n}

\* "0123456789abcdef"[d]
HexDigit(d) == IF d < 10 THEN 48 + d ELSE 87 + d

\* '%x' % n
RECURSIVE ToHex(_)
ToHex(n) == IF n < 16 THEN <<HexDigit(n)>> ELSE Append(ToHex(n \div 16), HexDigit(n % 16))

\* the operand '#0x<p>' of an adrp (style "0x") or '#<p>' (style "")
FmtImm(n, style) ==
  <<35>> \o (IF style = "0x" THEN <<48, 120>> ELSE <<>>) \o ToHex(n)

\* the memory operand '[x8, #0x<o>]' of an ldr
FmtMem(n, style) == T(<<"[", "x", "8", ",", " ">>) \o FmtImm(n, style) \o <<93>>

\* s.encode(): the UTF-8 bytes of a text
RECURSIVE Utf8Encode(_)
Utf8Encode(s) ==
  IF Len(s) = 0 THEN <<>>
  ELSE LET c == s[1] IN
    (IF c < 128 THEN <<c>>
     ELSE IF c < 2048 THEN <<192 + (c \div 64), 128 + (c % 64)>>
     ELSE <<224 + (c \div 4096), 128 + ((c \div 64) % 64), 128 + (c % 64)>>)
    \o Utf8Encode(Tail(s))

\* a region of memory holding bs from address base on
Region(base, bs) == [a \in base..(base + Len(bs) - 1) |-> bs[a - base + 1]]

EmptyDoc ==
  [seg |-> TRUE, insts |-> <<>>, cells |-> <<>>, bytes |-> <<>>,
   text |-> TRUE, named |-> <<>>, names |-> <<>>]

\* where the fixtures put code (0x1000) and strings (0x2000)
CodeBase == 4 * 1024
StrBase == 8 * 1024
PageVals == {16384, 1048576}
OffVals == {0, 24}
Styles == {"0x", ""}

adrp == T(<<"a", "d", "r", "p">>)
ldr == T(<<"l", "d", "r">>)
br == T(<<"b", "r">>)

\* the instructions ws[1], ws[2], ... from address base on, one every four bytes
WindowInsts(base, ws) ==
  [a \in {base + (k - 1) * 4 : k \in 1..Len(ws)} |-> ws[((a - base) \div 4) + 1]]

\* is_objc_stub: every window of five slots over these instructions, entered at
\* its first and at its second instruction (the window then runs off the end)
Mnemonics ==
  {adrp, ldr, br, T(<<"l", "d", "r", "s", "w">>), T(<<"a", "d", "r">>), T(<<"b">>)}

Slots == {NoInstruction} \cup {Inst(m, NoArg) : m \in Mnemonics}

StubDocs ==
  {[EmptyDoc EXCEPT !.insts = WindowInsts(CodeBase, w)] : w \in [1..5 -> Slots]}
  \cup {[EmptyDoc EXCEPT !.insts = WindowInsts(CodeBase, [k \in 1..5 |->
                                     Inst(expected_instructions[k], NoArg)]),
                         !.seg = FALSE]}

StubAddrs == {CodeBase, CodeBase + 4}

\* parse_offset: operand texts with each part present, absent or malformed
OffsetTexts ==
  {open \o T(<<"x", "8">>) \o sep \o ws \o mark \o num \o close :
     open \in {<<91>>, <<>>}, sep \in {<<44>>, <<>>}, ws \in {<<32>>, <<>>},
     mark \in {<<35>>, <<>>},
     num \in {T(<<"0", "x", "1", "8">>), T(<<"1", "8">>), T(<<"-", "0", "x", "8">>),
              T(<<"z", "z">>), <<>>, T(<<"0", "x">>)},
     close \in {<<93>>, <<>>, <<93, 33>>}}
  \cup {FmtMem(o, st) : o \in OffVals, st \in Styles}
  \cup {Str(NoArg)}

\* get_page_address: the second operand of an adrp, well formed, malformed, absent
PageArgs ==
  {Arg(FmtImm(p, st)) : p \in PageVals, st \in Styles}
  \cup {Arg(t) : t \in {T(<<"#", "z", "z">>), <<>>, T(<<"0", "x", "4", "0", "0", "0">>),
                        T(<<"#">>), T(<<"#", "-", "0", "x", "1", "0">>),
                        T(<<"#", " ", "0", "X", "4", "0", "_", "0", "0", " ">>)}}
  \cup {NoArg}

\* get_selector: the memory operand of the ldr
MemArgs ==
  {Arg(FmtMem(o, st)) : o \in OffVals, st \in Styles}
  \cup {Arg(t) : t \in {T(<<"[", "x", "8", " ", "#", "0", "x", "1", "8", "]">>),
                        T(<<"[", "x", "8", ",", " ", "#", "0", "x", "1", "8">>),
                        T(<<"x", "8", ",", " ", "#", "0", "x", "1", "8", "]">>),
                        T(<<"[", "x", "8", ",", " ", "#", "z", "z", "]">>),
                        T(<<"[", "x", "8", ",", " ", "#", "-", "0", "x", "8", "]">>)}}
  \cup {NoArg}

\* the texts whose bytes the string images hold
SampleTexts == {<<>>, T(<<"f", "o", "o">>), <<233>>, <<102, 8364>>}

\* terminated strings, bytes that are not UTF-8, and a string that runs off the
\* end of the mapped bytes
SelImages ==
  {Utf8Encode(s) \o <<0>> : s \in SampleTexts} \cup {<<255, 0>>, <<102>>}

CellAddrs == {p + o : p \in PageVals, o \in OffVals}

\* every cell points at the decoy string "o", but cell hot, which holds v
\* (hot FALSE-mapped: the cell is not mapped at all)
SelMemory(hot, mapped, v, img) ==
  [cells |-> [c \in (IF mapped THEN CellAddrs ELSE CellAddrs \ {hot}) |->
                IF c = hot THEN v ELSE StrBase + 16],
   bytes |-> Region(StrBase, img) @@ Region(StrBase + 16, <<111, 0>>)]

SelMemories ==
  {SelMemory(hot, TRUE, StrBase, img) : hot \in CellAddrs, img \in SelImages}
  \cup {SelMemory(hot, TRUE, v, <<0>>) : hot \in CellAddrs, v \in {0, StrBase + 64}}
  \cup {SelMemory(hot, FALSE, 0, <<0>>) : hot \in CellAddrs}

SelDoc(sg, first, second, m) ==
  [EmptyDoc EXCEPT !.seg = sg, !.insts = WindowInsts(CodeBase, <<first, second>>),
                   !.cells = m.cells, !.bytes = m.bytes]

SelDocs ==
  {SelDoc(TRUE, Inst(adrp, pa), Inst(ldr, ma), m) :
     pa \in PageArgs, ma \in MemArgs, m \in SelMemories}
  \cup {SelDoc(sg, first, second, SelMemory(1048600, TRUE, StrBase, <<102, 0>>)) :
          sg \in BOOLEAN,
          first \in {NoInstruction, Inst(adrp, Arg(FmtImm(1048576, "0x")))},
          second \in {NoInstruction, Inst(ldr, Arg(FmtMem(24, "0x")))}}

\* read_c_string: every run of these bytes, read from its first and second byte
ByteVals == {0, 102, 111, 195, 169, 255}

ReadDocs ==
  {[EmptyDoc EXCEPT !.bytes = Region(StrBase, bs)] : bs \in SeqsUpTo(ByteVals, MaxStrLen)}

ReadAddrs == {StrBase, StrBase + 1}

\* rename_objc_stubs: the memory of the scanned documents.  From page 0x100000
\*   +0x18 -> "foo"   +0x20 -> null   +0x28 -> ""   +0x30 -> bytes not UTF-8
\*   +0x38 -> a string that runs off the mapped bytes   +0x40 is not mapped
ScanCells ==
  (1048600 :> StrBase) @@ (1048608 :> 0) @@ (1048616 :> StrBase + 4)
  @@ (1048624 :> StrBase + 5) @@ (1048632 :> StrBase + 7)

ScanBytes == Region(StrBase, <<102, 111, 111, 0, 0, 255, 0, 111, 111>>)

StubWindow(pa, ma) ==
  <<Inst(adrp, pa), Inst(ldr, ma), Inst(adrp, Arg(T(<<"#", "0", "x", "0">>))),
    Inst(ldr, Arg(T(<<"[", "x", "1", "6", "]">>))), Inst(br, Arg(<<>>))>>

GoodPage == Arg(FmtImm(1048576, "0x"))

\* what stands at one named address: its name and the instructions from it on
Candidates ==
  LET autoName == T(<<"s", "u", "b", "_", "1">>)
      good == StubWindow(GoodPage, Arg(FmtMem(24, "0x")))
  IN
  {[name |-> autoName, window |-> StubWindow(GoodPage, Arg(FmtMem(o, "0x")))] :
     o \in {24, 32, 40, 48, 56, 64}}
  \cup {[name |-> autoName, window |-> StubWindow(GoodPage, ma)] :
          ma \in {Arg(T(<<"[", "x", "8", " ", "#", "0", "x", "1", "8", "]">>)),
                  Arg(T(<<"[", "x", "8", ",", " ", "#", "0", "x", "1", "8">>)),
                  NoArg}}
  \cup {[name |-> autoName, window |-> StubWindow(pa, Arg(FmtMem(24, "0x")))] :
          pa \in {Arg(T(<<"#", "z", "z">>)), NoArg}}
  \cup {[name |-> autoName, window |-> w] :
          w \in {[good EXCEPT ![5] = NoInstruction],
                 [good EXCEPT ![2] = Inst(T(<<"b">>), NoArg)],
                 [good EXCEPT ![4] = Inst(T(<<"l", "d", "r", "s", "w">>), NoArg)]}}
  \cup {[name |-> T(<<"m", "a", "i", "n">>), window |-> good]}

\* the named addresses: one stub slot of 32 bytes each
CandAddr(k) == CodeBase + 32 * (k - 1)

RECURSIVE Merge(_, _)
Merge(fs, k) == IF k > Len(fs) THEN <<>> ELSE fs[k] @@ Merge(fs, k + 1)

ScanDoc(sg, tx, cs) ==
  [seg |-> sg, text |-> tx,
   insts |-> Merge([k \in 1..Len(cs) |-> WindowInsts(CandAddr(k), cs[k].window)], 1),
   cells |-> ScanCells, bytes |-> ScanBytes,
   named |-> [k \in 1..Len(cs) |-> CandAddr(k)],
   names |-> [a \in {CandAddr(k) : k \in 1..Len(cs)} |->
                cs[((a - CodeBase) \div 32) + 1].name]]

ScanDocs ==
  {ScanDoc(sg, TRUE, cs) : sg \in BOOLEAN, cs \in [1..NCand -> Candidates]}
  \cup {ScanDoc(TRUE, FALSE, cs) : cs \in [1..NCand -> {CHOOSE c \in Candidates : TRUE}]}

-----------------------------------------------------------------------------
(* The state *)

VARIABLES
  pc,                 \* "idle", "scan" (at the head of the for loop), "stub" (after
                      \* is_objc_stub), "selector" (in get_selector, before the
                      \* string is read), "read" (in read_c_string's loop), "done",
                      \* "crashed" (an uncaught exception)
  doc,                \* the document the running function works on
  call,               \* the function that was called, its arguments and what it returned
  sel,                \* get_selector: what SelectorHead found
  rd,                 \* read_c_string: address, result, the addresses read, the outcome
  idx,                \* rename_objc_stubs: the position of the for loop in doc.named
  renamed_functions,  \* rename_objc_stubs: the counter
  orig,               \* the names when the scan began
  log,                \* per named address: what the scan found there
  reported            \* the count printed at the end (-1 before)

vars == <<pc, doc, call, sel, rd, idx, renamed_functions, orig, log, reported>>

NoCall == [fn |-> "none", address |-> 0, input |-> <<>>, ret |-> [kind |-> "none"]]
NoSel == HeadOut("none", "none", 0, {}, Unparsed, Unparsed)
NoRead == [ReadStart(0) EXCEPT !.out = [kind |-> "none", val |-> <<>>]]
Pending == [kind |-> "pending", val |-> <<>>, exc |-> "none"]

Init ==
  /\ pc = "idle"
  /\ doc = EmptyDoc
  /\ call = NoCall
  /\ sel = NoSel
  /\ rd = NoRead
  /\ idx = 0
  /\ renamed_functions = 0
  /\ orig = <<>>
  /\ log = <<>>
  /\ reported = -1

-----------------------------------------------------------------------------
(* Calls of the helper functions: one function is called on one document or *)
(* argument, and the run is over ("done") when it has returned or raised    *)

Returned(fn, address, input, ret) ==
  [fn |-> fn, address |-> address, input |-> input, ret |-> ret]

Running == [kind |-> "running"]

\* what get_selector hands its caller: None, the selector, or an exception
SelectorReturn(head, out) ==
  IF head.kind = "None" THEN [kind |-> "None", val |-> <<>>, exc |-> "none"]
  ELSE IF head.kind = "raise" THEN [kind |-> "raise", val |-> <<>>, exc |-> head.exc]
  ELSE IF out.kind = "str" THEN [kind |-> "str", val |-> out.val, exc |-> "none"]
  ELSE [kind |-> "raise", val |-> <<>>, exc |-> out.kind]

CallIsObjcStub ==
  /\ pc = "idle"
  /\ \E d \in StubDocs, a \in StubAddrs :
       /\ doc' = d
       /\ call' = Returned("is_objc_stub", a, <<>>, is_objc_stub(d, a))
  /\ sel' = NoSel
  /\ rd' = NoRead
  /\ pc' = "done"
  /\ UNCHANGED <<idx, renamed_functions, orig, log, reported>>

CallParseOffset ==
  /\ pc = "idle"
  /\ \E t \in OffsetTexts :
       call' = Returned("parse_offset", 0, t, parse_offset(t))
  /\ doc' = EmptyDoc
  /\ sel' = NoSel
  /\ rd' = NoRead
  /\ pc' = "done"
  /\ UNCHANGED <<idx, renamed_functions, orig, log, reported>>

CallGetPageAddress ==
  /\ pc = "idle"
  /\ \E pa \in PageArgs :
       call' = Returned("get_page_address", 0, Inst(adrp, pa),
                        get_page_address(Inst(adrp, pa)))
  /\ doc' = EmptyDoc
  /\ sel' = NoSel
  /\ rd' = NoRead
  /\ pc' = "done"
  /\ UNCHANGED <<idx, renamed_functions, orig, log, reported>>

CallReadCString ==
  /\ pc = "idle"
  /\ \E d \in ReadDocs, a \in ReadAddrs :
       /\ doc' = d
       /\ call' = Returned("read_c_string", a, <<>>, Running)
       /\ rd' = ReadStart(a)
  /\ pc' = "read"
  /\ sel' = NoSel
  /\ UNCHANGED <<idx, renamed_functions, orig, log, reported>>

\* one pass of the while loop of read_c_string, whoever called it
ReadLoop ==
  /\ pc = "read"
  /\ rd.out.kind = "running"
  /\ rd' = ReadIter(doc, rd)
  /\ UNCHANGED <<pc, doc, call, sel, idx, renamed_functions, orig, log, reported>>

ReadCStringReturns ==
  /\ pc = "read"
  /\ rd.out.kind # "running"
  /\ call.fn = "read_c_string"
  /\ call' = [call EXCEPT !.ret = rd.out]
  /\ pc' = "done"
  /\ UNCHANGED <<doc, sel, rd, idx, renamed_functions, orig, log, reported>>

CallGetSelector ==
  /\ pc = "idle"
  /\ \E d \in SelDocs :
       /\ doc' = d
       /\ sel' = SelectorHead(d, CodeBase)
  /\ call' = Returned("get_selector", CodeBase, <<>>, Running)
  /\ pc' = "selector"
  /\ rd' = NoRead
  /\ UNCHANGED <<idx, renamed_functions, orig, log, reported>>

\* get_selector returns None or raises before it reads the string
GetSelectorEnds ==
  /\ pc = "selector"
  /\ call.fn = "get_selector"
  /\ sel.kind # "read"
  /\ call' = [call EXCEPT !.ret = SelectorReturn(sel, NoRead.out)]
  /\ pc' = "done"
  /\ UNCHANGED <<doc, sel, rd, idx, renamed_functions, orig, log, reported>>

\* get_selector calls read_c_string(doc, selector_ptr)
GetSelectorReads ==
  /\ pc = "selector"
  /\ call.fn = "get_selector"
  /\ sel.kind = "read"
  /\ rd' = ReadStart(sel.ptr)
  /\ pc' = "read"
  /\ UNCHANGED <<doc, call, sel, idx, renamed_functions, orig, log, reported>>

GetSelectorReturns ==
  /\ pc = "read"
  /\ rd.out.kind # "running"
  /\ call.fn = "get_selector"
  /\ call' = [call EXCEPT !.ret = SelectorReturn(sel, rd.out)]
  /\ pc' = "done"
  /\ UNCHANGED <<doc, sel, rd, idx, renamed_functions, orig, log, reported>>

-----------------------------------------------------------------------------
(* rename_objc_stubs *)

Fresh == [stub |-> [kind |-> "none", val |-> FALSE], selector |-> Pending,
          outcome |-> "pending"]

CallRenameObjcStubs ==
  /\ pc = "idle"
  /\ \E d \in ScanDocs :
       /\ doc' = d
       /\ orig' = d.names
       /\ log' = [k \in 1..Len(d.named) |-> Fresh]
       /\ IF d.text
          THEN pc' = "scan" /\ idx' = 1 /\ renamed_functions' = 0
          ELSE pc' = "done" /\ UNCHANGED <<idx, renamed_functions>>
  /\ call' = Returned("rename_objc_stubs", 0, <<>>, Running)
  /\ sel' = NoSel
  /\ rd' = NoRead
  /\ UNCHANGED reported

InLoop == pc = "scan" /\ idx <= Len(doc.named)

procedure_address == doc.named[idx]

procedure_name == doc.names[procedure_address]

\* continue: on to the next named address
Continue(stub, selector, outcome) ==
  /\ log' = [log EXCEPT ![idx] =
               [stub |-> stub, selector |-> selector, outcome |-> outcome]]
  /\ idx' = idx + 1
  /\ pc' = "scan"

\* an exception inside the try: caught and logged, or the script dies
Except(stub, selector) ==
  IF DriverCatches(selector.exc)
  THEN Continue(stub, selector, "raised")
  ELSE /\ pc' = "crashed"
       /\ log' = [log EXCEPT ![idx] =
                    [stub |-> stub, selector |-> selector, outcome |-> "uncaught"]]
       /\ UNCHANGED idx

\* the name is not an automatic one
ScanSkip ==
  /\ InLoop
  /\ ~IsAutoName(procedure_name)
  /\ Continue(Fresh.stub, Pending, "skipped")
  /\ UNCHANGED <<doc, call, sel, rd, renamed_functions, orig, reported>>

\* the try block is entered: is_objc_stub(doc, procedure_address)
ScanCallsIsObjcStub ==
  /\ InLoop
  /\ IsAutoName(procedure_name)
  /\ log' = [log EXCEPT ![idx].stub = is_objc_stub(doc, procedure_address)]
  /\ pc' = "stub"
  /\ UNCHANGED <<doc, call, sel, rd, idx, renamed_functions, orig, reported>>

ScanNotStub ==
  /\ pc = "stub"
  /\ log[idx].stub.kind = "bool"
  /\ ~log[idx].stub.val
  /\ Continue(log[idx].stub, Pending, "not_stub")
  /\ UNCHANGED <<doc, call, sel, rd, renamed_functions, orig, reported>>

\* is_objc_stub raises
ScanStubRaises ==
  /\ pc = "stub"
  /\ log[idx].stub.kind # "bool"
  /\ Except(log[idx].stub, [kind |-> "raise", val |-> <<>>, exc |-> log[idx].stub.kind])
  /\ UNCHANGED <<doc, call, sel, rd, renamed_functions, orig, reported>>

\* it is a stub: get_selector(doc, procedure_address)
ScanCallsGetSelector ==
  /\ pc = "stub"
  /\ log[idx].stub.kind = "bool"
  /\ log[idx].stub.val
  /\ sel' = SelectorHead(doc, procedure_address)
  /\ pc' = "selector"
  /\ UNCHANGED <<doc, call, rd, idx, renamed_functions, orig, log, reported>>

InSelector == pc = "selector" /\ call.fn = "rename_objc_stubs"

\* get_selector raises before it reads the string
ScanSelectorRaises ==
  /\ InSelector
  /\ sel.kind = "raise"
  /\ Except(log[idx].stub, SelectorReturn(sel, NoRead.out))
  /\ UNCHANGED <<doc, call, sel, rd, renamed_functions, orig, reported>>

\* get_selector returns None before it reads the string
ScanNoSelector ==
  /\ InSelector
  /\ sel.kind = "None"
  /\ SelectorMissing(SelectorReturn(sel, NoRead.out))
  /\ Continue(log[idx].stub, SelectorReturn(sel, NoRead.out), "no_selector")
  /\ UNCHANGED <<doc, call, sel, rd, renamed_functions, orig, reported>>

\* get_selector calls read_c_string(doc, selector_ptr)
ScanReadsSelector ==
  /\ InSelector
  /\ sel.kind = "read"
  /\ rd' = ReadStart(sel.ptr)
  /\ pc' = "read"
  /\ UNCHANGED <<doc, call, sel, idx, renamed_functions, orig, log, reported>>

ScanCall == call.fn = "rename_objc_stubs" /\ pc = "read" /\ rd.out.kind # "running"

\* read_c_string raises: a read fault, or bytes that do not decode
ScanReadRaises ==
  /\ ScanCall
  /\ LET selector == SelectorReturn(sel, rd.out) IN
       /\ selector.kind = "raise"
       /\ Except(log[idx].stub, selector)
  /\ UNCHANGED <<doc, call, sel, rd, renamed_functions, orig, reported>>

\* read_c_string returns a selector the driver takes for none
ScanSelectorFalsy ==
  /\ ScanCall
  /\ LET selector == SelectorReturn(sel, rd.out) IN
       /\ selector.kind = "str"
       /\ SelectorMissing(selector)
       /\ Continue(log[idx].stub, selector, "no_selector")
  /\ UNCHANGED <<doc, call, sel, rd, renamed_functions, orig, reported>>

ScanRenames ==
  /\ ScanCall
  /\ LET selector == SelectorReturn(sel, rd.out)
         new_procedure_name == NewName(selector.val)
     IN
       /\ selector.kind = "str"
       /\ ~SelectorMissing(selector)
       /\ renamed_functions' = CountRenamed(renamed_functions)
       /\ doc' = [doc EXCEPT !.names[procedure_address] = new_procedure_name]
       /\ Continue(log[idx].stub, selector, "renamed")
  /\ UNCHANGED <<call, sel, rd, orig, reported>>

\* the for loop is over: print the count
ScanFinish ==
  /\ pc = "scan"
  /\ idx > Len(doc.named)
  /\ reported' = renamed_functions
  /\ pc' = "done"
  /\ UNCHANGED <<doc, call, sel, rd, idx, renamed_functions, orig, log>>

Next ==
  \/ CallIsObjcStub
  \/ CallParseOffset
  \/ CallGetPageAddress
  \/ CallReadCString
  \/ ReadLoop
  \/ ReadCStringReturns
  \/ CallGetSelector
  \/ GetSelectorEnds
  \/ GetSelectorReads
  \/ GetSelectorReturns
  \/ CallRenameObjcStubs
  \/ ScanSkip
  \/ ScanCallsIsObjcStub
  \/ ScanNotStub
  \/ ScanStubRaises
  \/ ScanCallsGetSelector
  \/ ScanSelectorRaises
  \/ ScanNoSelector
  \/ ScanReadsSelector
  \/ ScanReadRaises
  \/ ScanSelectorFalsy
  \/ ScanRenames
  \/ ScanFinish

Spec == Init /\ [][Next]_vars

\* the interpreter keeps running the while loop it is in
FairSpec == Spec /\ WF_vars(ReadLoop)

-----------------------------------------------------------------------------
(* What the claims speak of, said without the script's own functions *)

\* the window at address a has five instructions, the k-th beginning with the
\* k-th of adrp, ldr, adrp, ldr, br
StubShape(d, a) ==
  \A k \in 0..4 :
    LET x == a + 4 * k
        want == <<adrp, ldr, adrp, ldr, br>>[k + 1]
    IN /\ x \in DOMAIN d.insts
       /\ d.insts[x].found
       /\ Len(d.insts[x].mnem) >= Len(want)
       /\ \A j \in 1..Len(want) : d.insts[x].mnem[j] = want[j]

\* memory holds the bytes bs from address q on
Holds(bytes, q, bs) ==
  \A j \in 1..Len(bs) : (q + j - 1) \in DOMAIN bytes /\ bytes[q + j - 1] = bs[j]

\* z is the first zero byte at or after a, and every byte up to it can be read
FirstZero(bytes, a, z) ==
  /\ z >= a
  /\ \A x \in a..z : x \in DOMAIN bytes /\ (bytes[x] = 0 <=> x = z)

\* the bytes at a, a + 1, ..., z - 1
BytesBefore(bytes, a, z) == [j \in 1..(z - a) |-> bytes[a + j - 1]]

\* the texts the byte values of the images can spell
Spellable(n) == SeqsUpTo({102, 111, 233, 8364}, n)

\* bs is the UTF-8 encoding of some text
IsUtf8(bs) == \E s \in Spellable(Len(bs)) : Utf8Encode(s) = bs

\* the candidates whose name the scan has changed
Changed == {k \in 1..Len(doc.named) : doc.names[doc.named[k]] # orig[doc.named[k]]}

IsGetSelector == call.fn = "get_selector"
IsScan == call.fn = "rename_objc_stubs" /\ doc.text
ReadOver == rd.out.kind \in {"str", "UnicodeDecodeError", "ReadFault"}

\* the first two instructions and their operands, as get_selector is given them
FirstInst == Fetch(doc, CodeBase)
SecondInst == Fetch(doc, CodeBase + 4)
BothFetched == doc.seg /\ FirstInst.found /\ SecondInst.found

-----------------------------------------------------------------------------
(* The claims *)

\* C1: is_objc_stub returns true exactly when the five fetches at a, a+4, ...,
\* a+16 all return an instruction and the k-th mnemonic begins with the k-th of
\* adrp, ldr, adrp, ldr, br; with a window short of an instruction or with a
\* mnemonic that differs it returns false.  (Checked of the function called on
\* every window, and of every candidate the scan hands it.)
C1_StubIffShape ==
  /\ call.fn = "is_objc_stub" =>
       /\ (call.ret.kind = "bool" /\ call.ret.val) <=> (doc.seg /\ StubShape(doc, call.address))
       /\ doc.seg => call.ret.kind = "bool"
  /\ IsScan =>
       \A k \in 1..Len(log) :
         log[k].stub.kind = "bool" => log[k].stub.val = StubShape(doc, doc.named[k])

\* a window is_objc_stub accepts although a mnemonic is longer than its prefix
C1_Witness ==
  /\ call.fn = "is_objc_stub"
  /\ call.ret.kind = "bool"
  /\ call.ret.val
  /\ \E k \in 0..4 : Len(doc.insts[call.address + 4 * k].mnem) > Len(expected_instructions[k + 1])

\* C2: with the first operand '#' and the hex of p and the second '[x8, #' and
\* the hex of o and ']', get_selector reads the 8-byte pointer at p + o and at
\* no other cell; and when that cell holds a non-zero Q and memory at Q holds
\* the bytes of a text s and a zero byte, it returns s.
C2_CellAndText ==
  (IsGetSelector /\ pc = "done" /\ BothFetched) =>
    \A p \in PageVals, o \in OffVals, st1 \in Styles, st2 \in Styles :
      (FirstInst.arg1 = Arg(FmtImm(p, st1)) /\ SecondInst.arg1 = Arg(FmtMem(o, st2))) =>
        /\ sel.cells = {p + o}
        /\ \A s \in SampleTexts \cup {<<111>>} :
             (/\ (p + o) \in DOMAIN doc.cells
              /\ doc.cells[p + o] # 0
              /\ Holds(doc.bytes, doc.cells[p + o], Utf8Encode(s) \o <<0>>))
             => call.ret = [kind |-> "str", val |-> s, exc |-> "none"]

\* #0x100000 and [x8, #0x18]: the cell is 0x100018, the text there is "foo"
C2_Witness ==
  /\ IsGetSelector
  /\ pc = "done"
  /\ FirstInst.arg1 = Arg(T(<<"#", "0", "x", "1", "0", "0", "0", "0", "0">>))
  /\ SecondInst.arg1 = Arg(T(<<"[", "x", "8", ",", " ", "#", "0", "x", "1", "8", "]">>))
  /\ sel.cells = {1048600}
  /\ call.ret.kind = "str"
  /\ call.ret.val = T(<<"f", "o", "o">>)

\* C3: an exception raised while one candidate is analysed never ends the scan;
\* when the scan is over every candidate has been analysed, every candidate
\* whose selector resolved carries the new name, and the count printed is the
\* number of candidates renamed.
C3_ScanSurvives ==
  /\ pc # "crashed"
  /\ (IsScan /\ pc = "done") =>
       /\ \A k \in 1..Len(log) :
            /\ log[k].outcome # "pending"
            /\ (log[k].selector.kind = "str" /\ log[k].selector.val # <<>>) =>
                 doc.names[doc.named[k]] = log[k].selector.val \o <<40, 41>>
       /\ reported = Cardinality(Changed)
       /\ \A k \in Changed : log[k].selector.kind = "str"

\* the first candidate raised, the second was renamed all the same
C3_Witness ==
  /\ IsScan
  /\ pc = "done"
  /\ log[1].outcome = "raised"
  /\ log[2].outcome = "renamed"
  /\ reported = 1

\* C4: a name differs from the name before the scan only where the old name
\* began with sub_, the stub shape matched and the selector resolved, and it is
\* then the selector followed by "()"; where the name is not automatic, the
\* shape does not match, no selector is found or the analysis raises, the name
\* stays.
C4_OnlyStubsRenamed ==
  IsScan =>
    \A k \in 1..Len(log) :
      LET a == doc.named[k] IN
      /\ doc.names[a] # orig[a] =>
           /\ Len(orig[a]) >= 4
           /\ SubSeq(orig[a], 1, 4) = <<115, 117, 98, 95>>
           /\ StubShape(doc, a)
           /\ log[k].selector.kind = "str"
           /\ doc.names[a] = log[k].selector.val \o <<40, 41>>
      /\ log[k].outcome \in {"skipped", "not_stub", "no_selector", "raised"} =>
           doc.names[a] = orig[a]

\* one stub renamed to foo(), one auto-named function that is no stub left alone
C4_Witness ==
  /\ IsScan
  /\ pc = "done"
  /\ doc.names[doc.named[1]] = T(<<"f", "o", "o">>) \o <<40, 41>>
  /\ log[2].outcome = "not_stub"
  /\ doc.names[doc.named[2]] = T(<<"s", "u", "b", "_", "1">>)

\* C5 as stated: where z is the first zero byte at or after a, read_c_string
\* returns exactly the bytes at a .. z - 1 and has read a .. z and nothing else.
C5_Original ==
  ReadOver =>
    \A z \in DOMAIN doc.bytes :
      FirstZero(doc.bytes, rd.start, z) =>
        /\ rd.out.kind = "str"
        /\ Utf8Encode(rd.out.val) = BytesBefore(doc.bytes, rd.start, z)
        /\ rd.reads = rd.start..z

\* C5, amended: where z is the first zero byte at or after a, read_c_string has
\* read a .. z and nothing else; it returns the text whose UTF-8 encoding is
\* exactly the bytes at a .. z - 1 when they are UTF-8, and raises a
\* UnicodeDecodeError when they are not.
C5_StopsAtFirstZero ==
  ReadOver =>
    \A z \in DOMAIN doc.bytes :
      FirstZero(doc.bytes, rd.start, z) =>
        /\ rd.reads = rd.start..z
        /\ rd.out.kind \in {"str", "UnicodeDecodeError"}
        /\ rd.out.kind = "str" <=> IsUtf8(BytesBefore(doc.bytes, rd.start, z))
        /\ rd.out.kind = "str" =>
             Utf8Encode(rd.out.val) = BytesBefore(doc.bytes, rd.start, z)

\* "f\0o" read from its first byte gives "f": the byte after the zero is there
\* and was not read
C5_Witness ==
  /\ call.fn = "read_c_string"
  /\ pc = "done"
  /\ call.ret = [kind |-> "str", val |-> <<102>>]
  /\ rd.reads = {StrBase, StrBase + 1}
  /\ (StrBase + 2) \in DOMAIN doc.bytes
  /\ doc.bytes[StrBase + 2] # 0

\* the memory operand of the ldr has no c
Lacks(t, c) == \A j \in 1..Len(t) : t[j] # c

\* C6 as stated: when the memory operand lacks a ']' or lacks a ',',
\* parse_offset returns None, and get_selector returns None without raising
\* and without reading a cell or a byte.
C6_Claim ==
  /\ (call.fn = "parse_offset" /\ (Lacks(call.input, 93) \/ Lacks(call.input, 44))) =>
       call.ret.kind = "None"
  /\ (/\ IsGetSelector
      /\ pc = "done"
      /\ BothFetched
      /\ (Lacks(Str(SecondInst.arg1), 93) \/ Lacks(Str(SecondInst.arg1), 44))) =>
       /\ call.ret.kind = "None"
       /\ sel.cells = {}
       /\ rd.reads = {}

\* text that no reading makes a hexadecimal number: empty, or with a character
\* that is no hex digit, sign, prefix letter, underscore or blank
NotHex(t) ==
  \/ t = <<>>
  \/ \E j \in 1..Len(t) : ~IsHexDigit(t[j]) /\ t[j] \notin {43, 45, 120, 88, 95, 32}

\* C7 as stated: when the second operand of the first instruction is missing,
\* or is not hexadecimal after its first character, get_page_address returns
\* None with the parse error printed, and get_selector returns None: nothing
\* is raised.
C7_Claim ==
  /\ (/\ call.fn = "get_page_address"
      /\ (~call.input.arg1.some \/ NotHex(DropFirst(call.input.arg1.text)))) =>
       /\ call.ret.kind = "None"
       /\ call.ret.printed = "Error parsing page address"
  /\ (/\ IsGetSelector
      /\ pc = "done"
      /\ BothFetched
      /\ (~FirstInst.arg1.some \/ NotHex(DropFirst(FirstInst.arg1.text)))) =>
       /\ call.ret.kind = "None"
       /\ sel.page.kind = "None"

\* get_selector has parsed both operands and the cell at page + offset holds 0
NullCell ==
  /\ sel.page.kind = "int"
  /\ sel.offset.kind = "int"
  /\ (sel.page.val + sel.offset.val) \in DOMAIN doc.cells
  /\ doc.cells[sel.page.val + sel.offset.val] = 0

\* C8: when both operands parse and the 8 bytes at page + offset are 0,
\* get_selector returns None and read_c_string is not called: no byte is read.
C8_NullPointer ==
  (IsGetSelector /\ NullCell) =>
    /\ pc \in {"selector", "done"}
    /\ rd = NoRead
    /\ pc = "done" => call.ret.kind = "None"

C8_Witness ==
  /\ IsGetSelector
  /\ NullCell
  /\ pc = "done"
  /\ call.ret.kind = "None"
  /\ sel.cells = {1048600}

\* how a read ended is one of the outcomes named, and the one the memory calls for
Outcome(kinds) ==
  ReadOver =>
    /\ rd.out.kind \in kinds
    /\ rd.out.kind = "ReadFault" <=>
         ~ \E z \in DOMAIN doc.bytes : FirstZero(doc.bytes, rd.start, z)

C10_EmptySelector ==
  IsScan =>
    /\ \A k \in 1..Len(log) :
         (log[k].selector.kind = "str" /\ log[k].selector.val = <<>>) =>
           /\ doc.names[doc.named[k]] = orig[doc.named[k]]
           /\ doc.names[doc.named[k]] # <<40, 41>>
           /\ log[k].outcome = "no_selector"
    /\ pc \in {"scan", "stub", "selector", "read", "done"} =>
         renamed_functions = Cardinality(Changed)

\* the first candidate resolved to the empty text and kept its name; the second
\* was renamed and is the only one counted
C10_Witness ==
  /\ IsScan
  /\ pc = "done"
  /\ log[1].selector = [kind |-> "str", val |-> <<>>, exc |-> "none"]
  /\ doc.names[doc.named[1]] = orig[doc.named[1]]
  /\ log[2].outcome = "renamed"
  /\ reported = 1

=============================================================================
